---------------------------- MODULE Spec2Model ----------------------------
(***************************************************************************)
(* Model of the trial metrics extraction pipeline of                       *)
(* src/analysis/compute_variance.py (velocity estimation, event detection, *)
(* per-trial metrics, per-condition summary, session loading) and of the   *)
(* stimulus generator of src/stimuli.py.                                   *)
(*                                                                         *)
(* Numbers.  Timestamps and positions are integers in a fixed unit.  An    *)
(* optional float (None / NaN) is a tuple: <<>> is "undefined", <<x>> is   *)
(* the defined value x.  A quotient is kept exact as a record              *)
(* [num, den, byEps]: num/den, or num/1e-12 when byEps (the divisor was    *)
(* clipped to the code's epsilon).                                         *)
(*                                                                         *)
(* Every function under study is called by one action: the specification's *)
(* Init draws the arguments (args), the action stores what the call gives  *)
(* (ret): [status |-> "ok", value |-> v] for a return, and the exception's *)
(* name as status when the call raises.                                    *)
(***************************************************************************)
EXTENDS Integers, Sequences, FiniteSets, TLC

VARIABLES pc, args, ret

vars == <<pc, args, ret>>

\* ------------------------------------------------------------------ bounds
MaxLen == 4
MaxTime == 3
MaxDur == 3
MaxArgLen == 2
MaxPos == 2
MaxVelLen == 3
MaxRows == 3
MaxMs == 2
MaxTrialPos == 1
MaxBatchMs == 1
MaxSumRows == 3
MaxMetric == 2
MaxLoadRows == 2
FramesPerTrial == 2

\* ----------------------------------------------------------------- helpers
None == <<>>
Some(x) == <<x>>
Returned(v) == [status |-> "ok", value |-> v]
Raised(e) == [status |-> e, value |-> None]
NoCall == [status |-> "pending", value |-> None]

SeqsUpTo(S, n) == UNION {[1..k -> S] : k \in 0..n}
NonDecreasing(s) == \A i \in 1..(Len(s) - 1) : s[i] <= s[i + 1]

\* ------------------------------------------------------ first_sustain_time
\* The for loop of first_sustain_time from index i on; start_idx = 0 is the
\* code's start_idx = None (indices are 1-based here).
RECURSIVE SustainScan(_, _, _, _, _)
SustainScan(t, cond, min_duration_s, i, start_idx) ==
    IF i > Len(cond) THEN None
    ELSE IF cond[i]
         THEN LET s == IF start_idx = 0 THEN i ELSE start_idx
              IN  IF (t[i] - t[s]) >= min_duration_s
                  THEN Some(t[s])
                  ELSE SustainScan(t, cond, min_duration_s, i + 1, s)
         ELSE SustainScan(t, cond, min_duration_s, i + 1, 0)

\* A scan that keeps the run's start across a false sample.
RECURSIVE SustainScanNoReset(_, _, _, _, _)
SustainScanNoReset(t, cond, min_duration_s, i, start_idx) ==
    IF i > Len(cond) THEN None
    ELSE IF cond[i]
         THEN LET s == IF start_idx = 0 THEN i ELSE start_idx
              IN  IF (t[i] - t[s]) >= min_duration_s
                  THEN Some(t[s])
                  ELSE SustainScanNoReset(t, cond, min_duration_s, i + 1, s)
         ELSE SustainScanNoReset(t, cond, min_duration_s, i + 1, start_idx)

SustainLoopNoReset(t, cond, min_duration_s) ==
    SustainScanNoReset(t, cond, min_duration_s, 1, 0)

SustainLoop(t, cond, min_duration_s) ==
    SustainScan(t, cond, min_duration_s, 1, 0)

first_sustain_time(t, cond, min_duration_s) ==
    IF Len(t) = 0 \/ Len(cond) = 0 \/ Len(t) # Len(cond)
    THEN None
    ELSE SustainLoop(t, cond, min_duration_s)

\* --------------------------------------------- specification: SpecSustain
\* first_sustain_time on non-empty, equal-length inputs with sorted t.
InitSustain ==
    /\ pc = "ready"
    /\ ret = NoCall
    /\ \E n \in 1..MaxLen :
         \E t \in [1..n -> 0..MaxTime], cond \in [1..n -> BOOLEAN],
            d \in 0..MaxDur :
            /\ NonDecreasing(t)
            /\ args = [t |-> t, cond |-> cond, min_duration_s |-> d]

CallFirstSustainTime ==
    /\ pc = "ready"
    /\ ret' = Returned(first_sustain_time(args.t, args.cond,
                                          args.min_duration_s))
    /\ pc' = "done"
    /\ UNCHANGED args

NextSustain == CallFirstSustainTime

SpecSustain == InitSustain /\ [][NextSustain]_vars

\* Maximal runs of true samples of cond: s..e all true, false (or the
\* sequence's edge) on both sides.
IsMaximalRun(cond, s, e) ==
    /\ s \in 1..Len(cond) /\ e \in s..Len(cond)
    /\ \A i \in s..e : cond[i]
    /\ (s = 1 \/ ~cond[s - 1])
    /\ (e = Len(cond) \/ ~cond[e + 1])

RunReaches(t, s, e, d) == \E i \in s..e : t[i] - t[s] >= d

QualifyingStarts(t, cond, d) ==
    {s \in 1..Len(cond) :
        \E e \in s..Len(cond) : IsMaximalRun(cond, s, e) /\ RunReaches(t, s, e, d)}

SetMin(S) == CHOOSE x \in S : \A z \in S : x <= z

\* C1: on non-empty equal-length inputs with non-decreasing t,
\* first_sustain_time returns t[s], s the first index of the earliest maximal
\* run of true samples that contains an index i with t[i] - t[s] >= d (the
\* run's start, not t[i]); a false sample resets the run; None when no run
\* reaches d.
C1_SustainReturnsRunStart ==
    pc = "done" =>
        LET q == QualifyingStarts(args.t, args.cond, args.min_duration_s)
        IN  /\ ret.status = "ok"
            /\ (q = {} => ret.value = None)
            /\ (q # {} => ret.value = Some(args.t[SetMin(q)]))

\* A short run, a gap, then a run that reaches d: the second run's start is
\* returned, which is neither the first run's start nor the time d was reached.
C1_Witness ==
    /\ pc = "done"
    /\ args.min_duration_s > 0
    /\ Len(args.cond) = 4
    /\ args.cond = <<TRUE, FALSE, TRUE, TRUE>>
    /\ args.t = <<0, 1, 2, 3>>
    /\ args.min_duration_s = 1
    /\ ret.value = Some(2)

\* ---------------------------------------------------- first_cross_time_pos
\* np.where(y >= thresh)[0] / np.where(y <= thresh)[0]: the matching indices.
CrossIdx(y, thresh_value, direction) ==
    IF direction = "up"
    THEN {i \in 1..Len(y) : y[i] >= thresh_value}
    ELSE {i \in 1..Len(y) : y[i] <= thresh_value}

\* float(t[idx[0]]) if idx.size > 0 else None; t[idx[0]] raises IndexError
\* when idx[0] is past the end of t.
first_cross_time_pos(t, y, thresh_value, direction) ==
    LET idx == CrossIdx(y, thresh_value, direction)
    IN  IF idx # {}
        THEN IF SetMin(idx) \in 1..Len(t)
             THEN Returned(Some(t[SetMin(idx)]))
             ELSE Raised("IndexError")
        ELSE Returned(None)

\* ---------------------------------------------- specification: SpecDetect
\* Both detectors on inputs of any lengths (empty and mismatched included).
InitDetectSustain ==
    \E t \in SeqsUpTo(0..MaxTime, MaxArgLen),
       cond \in SeqsUpTo(BOOLEAN, MaxArgLen), d \in 0..MaxDur :
        args = [fn |-> "first_sustain_time", t |-> t, cond |-> cond,
                min_duration_s |-> d]

InitDetectCross ==
    \E t \in SeqsUpTo(0..MaxTime, MaxArgLen),
       y \in SeqsUpTo(0..MaxPos, MaxArgLen), th \in 0..MaxPos,
       dir \in {"up", "down"} :
        args = [fn |-> "first_cross_time_pos", t |-> t, y |-> y,
                thresh_value |-> th, direction |-> dir]

InitDetect ==
    /\ pc = "ready"
    /\ ret = NoCall
    /\ (InitDetectSustain \/ InitDetectCross)

DetectSustain ==
    /\ pc = "ready"
    /\ args.fn = "first_sustain_time"
    /\ ret' = Returned(first_sustain_time(args.t, args.cond,
                                          args.min_duration_s))
    /\ pc' = "done"
    /\ UNCHANGED args

DetectCross ==
    /\ pc = "ready"
    /\ args.fn = "first_cross_time_pos"
    /\ ret' = first_cross_time_pos(args.t, args.y, args.thresh_value,
                                   args.direction)
    /\ pc' = "done"
    /\ UNCHANGED args

NextDetect == DetectSustain \/ DetectCross

SpecDetect == InitDetect /\ [][NextDetect]_vars

DetectorInputLen ==
    IF args.fn = "first_sustain_time" THEN Len(args.cond) ELSE Len(args.y)

\* C3: for both detectors, a call whose input sequences are empty or differ in
\* length returns None and never raises.
C3_DetectorsNoEventOnBadInput ==
    (pc = "done" /\ (Len(args.t) = 0 \/ DetectorInputLen = 0
                     \/ Len(args.t) # DetectorInputLen))
        => ret = Returned(None)

\* -------------------------------------------------------- compute_velocity
\* dy / max(dt, 1e-12) (np.clip(dt, 1e-12, None) alike): timestamps are whole
\* units far above 1e-12 s, so the divisor is dt when dt >= 1 and the epsilon
\* otherwise.
Vel(dy, dt) ==
    IF dt >= 1 THEN [num |-> dy, den |-> dt, byEps |-> FALSE]
    ELSE [num |-> dy, den |-> 1, byEps |-> TRUE]

ZeroVel == [num |-> 0, den |-> 1, byEps |-> FALSE]

\* values[2:] - values[:-2] and times[2:] - times[:-2]
InteriorDyForward(values) ==
    [i \in 1..(Len(values) - 2) |-> values[i + 1] - values[i]]

InteriorDy(values) ==
    [i \in 1..(Len(values) - 2) |-> values[i + 2] - values[i]]

InteriorDt(times) ==
    [i \in 1..(IF Len(times) >= 2 THEN Len(times) - 2 ELSE 0) |->
        times[i + 2] - times[i]]

\* numpy broadcasting of two 1-d operands of lengths la and lb: the result's
\* length, or -1 when the shapes do not broadcast (ValueError).
BroadcastLen(la, lb) ==
    IF la = lb THEN la
    ELSE IF la = 1 THEN lb
    ELSE IF lb = 1 THEN la
    ELSE -1

\* a / np.clip(b, 1e-12, None), elementwise with broadcasting.
BroadcastDiv(a, b) ==
    [i \in 1..BroadcastLen(Len(a), Len(b)) |->
        Vel(a[IF Len(a) = 1 THEN 1 ELSE i], b[IF Len(b) = 1 THEN 1 ELSE i])]

compute_velocity(values, times) ==
    LET n == Len(values)
        m == Len(times)
    IN  IF n = 0 THEN Returned(<<>>)
        ELSE IF n = 1 THEN Returned(<<ZeroVel>>)
        ELSE IF m < 2 THEN Raised("IndexError")
        ELSE LET first == Vel(values[2] - values[1], times[2] - times[1])
                 last  == Vel(values[n] - values[n - 1], times[m] - times[m - 1])
             IN  IF n > 2
                 THEN LET dy == InteriorDy(values)
                          dt == InteriorDt(times)
                          r  == BroadcastLen(Len(dy), Len(dt))
                      IN  IF r = -1 THEN Raised("ValueError")
                          ELSE IF r # n - 2 /\ r # 1 THEN Raised("ValueError")
                          ELSE LET q == BroadcastDiv(dy, dt)
                               IN  Returned(<<first>>
                                     \o [i \in 1..(n - 2) |->
                                           q[IF r = 1 THEN 1 ELSE i]]
                                     \o <<last>>)
                 ELSE Returned(<<first, last>>)

\* -------------------------------------------- specification: SpecVelocity
\* compute_velocity on position and timestamp sequences of any lengths and
\* any order of timestamps, and on the documented example.
InitVelocity ==
    /\ pc = "ready"
    /\ ret = NoCall
    /\ \/ \E values \in SeqsUpTo(0..MaxPos, MaxVelLen),
             times \in SeqsUpTo(0..MaxTime, MaxVelLen) :
             args = [values |-> values, times |-> times]
       \/ args = [values |-> <<0, 2, 6>>, times |-> <<0, 1, 2>>]

CallComputeVelocity ==
    /\ pc = "ready"
    /\ ret' = compute_velocity(args.values, args.times)
    /\ pc' = "done"
    /\ UNCHANGED args

NextVelocity == CallComputeVelocity

SpecVelocity == InitVelocity /\ [][NextVelocity]_vars

\* v is the quotient dy / max(dt, eps), as a number.
IsQuotient(v, dy, dt) ==
    IF dt > 0
    THEN ~v.byEps /\ v.den > 0 /\ v.num * dt = dy * v.den
    ELSE v.byEps /\ v.den > 0 /\ v.num = dy * v.den

IsNumber(v, k) == ~v.byEps /\ v.den > 0 /\ v.num = k * v.den

\* C9: for equal-length inputs of length n, compute_velocity returns n values:
\* none for n = 0, [0] for n = 1, and for n >= 2 the forward difference at
\* index 0, the backward difference at index n-1 and the central difference at
\* every interior index, each divided by max(dt, eps), so a zero or negative
\* time delta never divides by zero.
C9_VelocityDifferences ==
    (pc = "done" /\ Len(args.values) = Len(args.times)) =>
        LET y == args.values
            t == args.times
            n == Len(args.values)
            v == ret.value
        IN  /\ ret.status = "ok"
            /\ Len(v) = n
            /\ (n = 1 => IsNumber(v[1], 0))
            /\ (n >= 2 =>
                  /\ IsQuotient(v[1], y[2] - y[1], t[2] - t[1])
                  /\ IsQuotient(v[n], y[n] - y[n - 1], t[n] - t[n - 1])
                  /\ \A i \in 2..(n - 1) :
                        IsQuotient(v[i], y[i + 1] - y[i - 1], t[i + 1] - t[i - 1]))

\* The documented example: y = [0,2,6], t = [0,1,2] gives [2,3,4].
C9_Witness ==
    /\ pc = "done"
    /\ args.values = <<0, 2, 6>> /\ args.times = <<0, 1, 2>>
    /\ Len(ret.value) = 3
    /\ IsNumber(ret.value[1], 2)
    /\ IsNumber(ret.value[2], 3)
    /\ IsNumber(ret.value[3], 4)

\* C10: every call of compute_velocity in which y and t differ in length ends
\* in an error and returns no velocity sequence.
C10_VelocityFailsFastOnMismatch ==
    (pc = "done" /\ Len(args.values) # Len(args.times)) => ret.status # "ok"

\* ---------------------------------------- per_trial_metrics_position_based
\* Timestamps are whole multiples of 1/3000 s: x_ms / 1000.0 seconds is
\* x_ms * TimeUnitsPerMs units.
TimeUnitsPerMs == 3

Seconds(ms) == ms * TimeUnitsPerMs

Abs(x) == IF x < 0 THEN -x ELSE x

\* The sum of s[lo..hi], by halves.
RECURSIVE SumRange(_, _, _)
SumRange(s, lo, hi) ==
    IF lo > hi THEN 0
    ELSE IF lo = hi THEN s[lo]
    ELSE LET mid == (lo + hi) \div 2
         IN  SumRange(s, lo, mid) + SumRange(s, mid + 1, hi)

SeqSum(s) == SumRange(s, 1, Len(s))

\* a[mask] of numpy: the elements of a at which the boolean mask holds, in
\* index order (a[np.where(mask)[0]] alike).
RECURSIVE MaskedRange(_, _, _, _)
MaskedRange(a, mask, lo, hi) ==
    IF lo > hi THEN <<>>
    ELSE IF lo = hi THEN (IF mask[lo] THEN <<a[lo]>> ELSE <<>>)
    ELSE LET mid == (lo + hi) \div 2
         IN  MaskedRange(a, mask, lo, mid) \o MaskedRange(a, mask, mid + 1, hi)

Masked(a, mask) == MaskedRange(a, mask, 1, Len(a))

Column(g, f) == [i \in 1..Len(g) |-> g[i][f]]

\* v >= thresh and |v| <= thresh for a positive threshold given in position
\* units per time unit; a quotient by the epsilon is beyond any threshold
\* unless its numerator is 0.
VelGE(v, thresh) ==
    IF v.byEps THEN v.num >= 1 ELSE v.num >= thresh * v.den

VelAbsLE(v, thresh) ==
    IF v.byEps THEN v.num = 0 ELSE Abs(v.num) <= thresh * v.den

\* np.var(a, ddof=1), np.mean(a) as exact quotients.
SampleVar(a) ==
    LET n == Len(a)
        sq == [i \in 1..n |-> a[i] * a[i]]
    IN  [num |-> n * SeqSum(sq) - SeqSum(a) * SeqSum(a), den |-> n * (n - 1)]

Mean(a) == [num |-> SeqSum(a), den |-> Len(a)]

TrialTau(g) == g[1].tau

TStartOf(g, cfg) ==
    LET t   == Column(g, "t")
        y_p == Column(g, "y_p")
        v_p == compute_velocity(y_p, t).value
    IN  IF cfg.use_velocity_detection
        THEN first_sustain_time(t,
                 [i \in 1..Len(v_p) |-> VelGE(v_p[i], cfg.v_start_thresh)],
                 Seconds(cfg.hold_start_ms))
        ELSE first_cross_time_pos(t, y_p,
                 (0 - (cfg.L \div 2)) + cfg.start_margin_px, "up").value

TEndOf(g, cfg) ==
    LET t   == Column(g, "t")
        y_p == Column(g, "y_p")
        v_p == compute_velocity(y_p, t).value
    IN  IF cfg.use_velocity_detection
        THEN first_sustain_time(t,
                 [i \in 1..Len(v_p) |-> VelAbsLE(v_p[i], cfg.v_stop_thresh)],
                 Seconds(cfg.hold_stop_ms))
        ELSE first_cross_time_pos(t, y_p,
                 (cfg.L \div 2) - cfg.end_margin_px, "up").value

\* (t >= center - half_w) & (t <= center + half_w)
WindowMaskOpen(g, center, half_w) ==
    [i \in 1..Len(g) |-> g[i].t > center - half_w /\ g[i].t < center + half_w]

WindowMask(g, center, half_w) ==
    [i \in 1..Len(g) |-> g[i].t >= center - half_w /\ g[i].t <= center + half_w]

CenterStart(g, cfg) == TrialTau(g)
CenterEnd(g, cfg) == TrialTau(g) + cfg.T_for_truth

PosVarOf(g, center, half_w) ==
    LET sel == Masked(Column(g, "y_p"), WindowMask(g, center, half_w))
    IN  IF Len(sel) > 1 THEN Some(SampleVar(sel)) ELSE None

YEndMeanOf(g, cfg) ==
    LET sel == Masked(Column(g, "y_p"),
                      WindowMask(g, CenterEnd(g, cfg), Seconds(cfg.poswin_ms)))
    IN  IF Len(sel) > 0 THEN Some(Mean(sel)) ELSE None

\* (t >= center_start) & (t <= center_end)
InTruthHalfOpen(g, cfg) ==
    [i \in 1..Len(g) |->
        g[i].t >= CenterStart(g, cfg) /\ g[i].t < CenterEnd(g, cfg)]

InTruth(g, cfg) ==
    [i \in 1..Len(g) |->
        g[i].t >= CenterStart(g, cfg) /\ g[i].t <= CenterEnd(g, cfg)]

MseTruthOf(g, cfg) ==
    LET in_truth == InTruth(g, cfg)
        err == [i \in 1..Len(g) |->
                   (g[i].y_p - g[i].y_t) * (g[i].y_p - g[i].y_t)]
        sel == Masked(err, in_truth)
    IN  IF Len(sel) > 0 THEN Some(Mean(sel)) ELSE None

per_trial_metrics_position_based(g, cfg) ==
    [trial |-> g[1].trial,
     tau |-> TrialTau(g),
     t_start |-> TStartOf(g, cfg),
     t_end |-> TEndOf(g, cfg),
     pos_var_start |-> PosVarOf(g, CenterStart(g, cfg), Seconds(cfg.poswin_ms)),
     pos_var_end |-> PosVarOf(g, CenterEnd(g, cfg), Seconds(cfg.poswin_ms)),
     y_end_mean |-> YEndMeanOf(g, cfg),
     mse_truth |-> MseTruthOf(g, cfg)]

\* ----------------------------------------------- specification: SpecTrial
\* One trial's rows, sorted by t (main sorts each group), on a 1 ms grid.
TrialRows(trial, tau, n) ==
    {g \in [1..n -> [trial : {trial}, tau : {tau},
                     t : {Seconds(j) : j \in 0..MaxMs},
                     y_t : 0..1, y_p : 0..MaxTrialPos]] :
        NonDecreasing(Column(g, "t"))}

TrialCfg(poswin_ms, use_velocity) ==
    [L |-> 4, poswin_ms |-> poswin_ms, start_margin_px |-> 3,
     end_margin_px |-> 1, T_for_truth |-> Seconds(1),
     v_start_thresh |-> 1, v_stop_thresh |-> 1,
     hold_start_ms |-> 1, hold_stop_ms |-> 1,
     use_velocity_detection |-> use_velocity]

InitTrial ==
    /\ pc = "ready"
    /\ ret = NoCall
    /\ \E n \in 1..MaxRows, tau \in {Seconds(0), Seconds(1)},
          poswin_ms \in 0..1 :
          \E g \in TrialRows(1, tau, n) :
             args = [g |-> g, cfg |-> TrialCfg(poswin_ms, TRUE)]

CallPerTrialMetrics ==
    /\ pc = "ready"
    /\ ret' = Returned(per_trial_metrics_position_based(args.g, args.cfg))
    /\ pc' = "done"
    /\ UNCHANGED args

NextTrial == CallPerTrialMetrics

SpecTrial == InitTrial /\ [][NextTrial]_vars

\* The samples of g with lo <= t <= hi, and the sum of f over a set of them.
SamplesIn(g, lo, hi) == {i \in 1..Len(g) : lo <= g[i].t /\ g[i].t <= hi}

RECURSIVE SumOver(_, _)
SumOver(S, f) ==
    IF S = {} THEN 0
    ELSE LET i == CHOOSE x \in S : TRUE IN f[i] + SumOver(S \ {i}, f)

\* var is the N-1 sample variance of y_p over the samples W of g:
\* sum (y_i - mean)^2 / (n - 1), stated as sum (n y_i - S)^2 = n * num over
\* the denominator n (n - 1).
IsSampleVarOver(var, g, W) ==
    LET n == Cardinality(W)
        S == SumOver(W, Column(g, "y_p"))
        dev2 == [i \in 1..Len(g) |->
                    (n * g[i].y_p - S) * (n * g[i].y_p - S)]
    IN  /\ var.den = n * (n - 1)
        /\ SumOver(W, dev2) = n * var.num

PosVarAsClaimed(val, g, center, w) ==
    LET W == SamplesIn(g, center - w, center + w)
    IN  /\ (val # None) <=> (Cardinality(W) >= 2)
        /\ (Cardinality(W) >= 2 => IsSampleVarOver(val[1], g, W))

\* C5: pos_var_start (pos_var_end) is defined iff at least 2 samples have t in
\* the closed window [tau - w, tau + w] ([tau + T - w, tau + T + w]),
\* w = poswin_ms / 1000; with 0 or 1 sample it is undefined, never zero, and
\* with 2 or more it is the N-1 sample variance of y_p over those samples.
C5_PosVarDefinedIffTwoSamples ==
    pc = "done" =>
        LET g == args.g
            w == Seconds(args.cfg.poswin_ms)
            tau == g[1].tau
        IN  /\ PosVarAsClaimed(ret.value.pos_var_start, g, tau, w)
            /\ PosVarAsClaimed(ret.value.pos_var_end, g,
                               tau + args.cfg.T_for_truth, w)

\* One sample in the start window (undefined) and two samples on the closed
\* edges of the end window with a non-zero variance.
C5_Witness ==
    /\ pc = "done"
    /\ args.cfg.poswin_ms = 1
    /\ Cardinality(SamplesIn(args.g, args.g[1].tau - Seconds(1),
                             args.g[1].tau + Seconds(1))) = 2
    /\ ret.value.pos_var_start # None
    /\ ret.value.pos_var_start[1].num > 0
    /\ Cardinality(SamplesIn(args.g,
                             args.g[1].tau + args.cfg.T_for_truth - Seconds(1),
                             args.g[1].tau + args.cfg.T_for_truth + Seconds(1))) = 1
    /\ ret.value.pos_var_end = None

\* C6: mse_truth is the mean of (y_p - y_t)^2 over exactly the samples with
\* tau <= t <= tau + T, both bounds inclusive, and is undefined exactly when
\* no sample lies in that closed interval.
C6_MseTruthClosedInterval ==
    pc = "done" =>
        LET g == args.g
            tau == g[1].tau
            W == SamplesIn(g, tau, tau + args.cfg.T_for_truth)
            e2 == [i \in 1..Len(g) |->
                      (g[i].y_p - g[i].y_t) * (g[i].y_p - g[i].y_t)]
            m == ret.value.mse_truth
        IN  /\ (m = None) <=> (W = {})
            /\ (W # {} =>
                  /\ m[1].den = Cardinality(W)
                  /\ m[1].num = SumOver(W, e2))

\* Samples exactly at tau (with an error) and at tau + T (without) both count,
\* and the sample before tau, which has an error too, does not.
C6_Witness ==
    /\ pc = "done"
    /\ Len(args.g) = 3
    /\ args.g[1].tau = Seconds(1)
    /\ args.g[1].t = Seconds(0) /\ args.g[1].y_p # args.g[1].y_t
    /\ args.g[2].t = args.g[1].tau /\ args.g[2].y_p # args.g[2].y_t
    /\ args.g[3].t = args.g[1].tau + args.cfg.T_for_truth
    /\ args.g[3].y_p = args.g[3].y_t
    /\ ret.value.mse_truth = Some([num |-> 1, den |-> 2])

\* ------------------------------------------------------------------- main
\* The trial loop of main: df.groupby(["participant","condition","trial"],
\* sort=True), each group sorted by t, one metrics row appended per group.
\* df is the cleaned table, a sequence of rows in file order.
KeyOf(r) == <<r.participant, r.condition, r.trial>>

GroupKeys(df) == {KeyOf(df[i]) : i \in 1..Len(df)}

\* Order of the string keys that occur ("1" < "2", one participant id).
StrRank(str) == IF str = "2" THEN 2 ELSE 1

KeyLess(a, b) ==
    \/ StrRank(a[1]) < StrRank(b[1])
    \/ (a[1] = b[1] /\ StrRank(a[2]) < StrRank(b[2]))
    \/ (a[1] = b[1] /\ a[2] = b[2] /\ a[3] < b[3])

RECURSIVE SortedKeys(_)
SortedKeys(K) ==
    IF K = {} THEN <<>>
    ELSE LET k == CHOOSE x \in K : \A z \in K \ {x} : KeyLess(x, z)
         IN  <<k>> \o SortedKeys(K \ {k})

\* g.sort_values("t"): insertion of each row of the group by its t.
RECURSIVE SortByT(_)
SortByT(rows) ==
    IF Len(rows) = 0 THEN <<>>
    ELSE LET rest == SortByT(Tail(rows))
             before == SelectSeq(rest, LAMBDA r : r.t < rows[1].t)
             after  == SelectSeq(rest, LAMBDA r : r.t >= rows[1].t)
         IN  before \o <<rows[1]>> \o after

\* A grouping that leaves the trial number out of the key.
GroupOfIgnoringTrial(df, key) ==
    SortByT(SelectSeq(df, LAMBDA r : r.participant = key[1]
                                     /\ r.condition = key[2]))

GroupOf(df, key) == SortByT(SelectSeq(df, LAMBDA r : KeyOf(r) = key))

\* One pass of the loop body, lines 269-282.
MetricsRow(df, key, cfg) ==
    LET m == per_trial_metrics_position_based(GroupOf(df, key), cfg)
    IN  [participant |-> key[1], condition |-> key[2], trial |-> m.trial,
         tau |-> m.tau, t_start |-> m.t_start, t_end |-> m.t_end,
         pos_var_start |-> m.pos_var_start, pos_var_end |-> m.pos_var_end,
         y_end_mean |-> m.y_end_mean, mse_truth |-> m.mse_truth]

\* The whole loop: the metrics rows of df, in key order.
TrialRowsOfMain(df, cfg) ==
    LET keys == SortedKeys(GroupKeys(df))
    IN  [k \in 1..Len(keys) |-> MetricsRow(df, keys[k], cfg)]

\* ----------------------------------------------- specification: SpecBatch
\* Sessions of one or two trials; a trial has samples at distinct times of the
\* 1 ms grid, which may be a single sample, and may lie outside every window.
BatchKeys == {<<"P01", "1", 1>>, <<"P01", "1", 2>>, <<"P01", "2", 1>>}

BatchTrials(key) ==
    UNION {
      {g \in [1..n -> [participant : {key[1]}, condition : {key[2]},
                       trial : {key[3]}, tau : {tau},
                       t : {Seconds(j) : j \in 0..MaxBatchMs},
                       y_t : {0}, y_p : 0..1]] :
          \A i \in 1..(n - 1) : g[i].t < g[i + 1].t}
      : n \in 1..(MaxBatchMs + 1), tau \in {Seconds(0), Seconds(1)}}

InitBatch ==
    /\ pc = "loop"
    /\ ret = [status |-> "running", value |-> <<>>]
    /\ \E k1 \in BatchKeys, k2 \in BatchKeys, use_velocity \in BOOLEAN :
         \E g1 \in BatchTrials(k1), g2 \in BatchTrials(k2) :
            /\ (k1 = k2 \/ KeyLess(k1, k2))
            /\ (k1 = k2 => g1 = g2)
            /\ args = [df |-> IF k1 = k2 THEN g1 ELSE g2 \o g1,
                       cfg |-> TrialCfg(1, use_velocity)]

\* One iteration of the for loop: the next group in key order.
ProcessGroup ==
    /\ pc = "loop"
    /\ Len(ret.value) < Cardinality(GroupKeys(args.df))
    /\ LET keys == SortedKeys(GroupKeys(args.df))
           key == keys[Len(ret.value) + 1]
       IN  ret' = [ret EXCEPT !.value =
                      Append(@, MetricsRow(args.df, key, args.cfg))]
    /\ UNCHANGED <<pc, args>>

\* The loop has ended: df_trials is complete.
FinishLoop ==
    /\ pc = "loop"
    /\ Len(ret.value) = Cardinality(GroupKeys(args.df))
    /\ pc' = "done"
    /\ ret' = [ret EXCEPT !.status = "ok"]
    /\ UNCHANGED args

NextBatch == ProcessGroup \/ FinishLoop

SpecBatch == InitBatch /\ [][NextBatch]_vars

WithoutKey(df, key) == SelectSeq(df, LAMBDA r : KeyOf(r) # key)

RowsWithoutKey(rows, key) == SelectSeq(rows, LAMBDA r : KeyOf(r) # key)

SamplesOf(df, key) == {i \in 1..Len(df) : KeyOf(df[i]) = key}

\* What decides each field of a trial's row, from the trial's own samples.
FieldsDegradeAlone(df, cfg, row) ==
    LET S == SamplesOf(df, KeyOf(row))
        w == Seconds(cfg.poswin_ms)
        inWin(c) == {i \in S : c - w <= df[i].t /\ df[i].t <= c + w}
        cEnd == row.tau + cfg.T_for_truth
    IN  /\ \E i \in S : row.tau = df[i].tau
        /\ (row.pos_var_start # None) <=> (Cardinality(inWin(row.tau)) >= 2)
        /\ (row.pos_var_end # None) <=> (Cardinality(inWin(cEnd)) >= 2)
        /\ (row.y_end_mean # None) <=> (inWin(cEnd) # {})
        /\ (row.mse_truth # None) <=>
              (\E i \in S : row.tau <= df[i].t /\ df[i].t <= cEnd)
        /\ (~cfg.use_velocity_detection =>
              (row.t_start # None) <=>
                 (\E i \in S : df[i].y_p >= cfg.start_margin_px - cfg.L \div 2))

\* C8: the batch never fails on a trial with no detected onset/offset, an
\* empty or single-sample window or no sample in the truth interval: every
\* (participant, condition, trial) group yields exactly one metrics row,
\* each field of it undefined only for its own reason, and the rows of the
\* other trials are the rows obtained with that trial absent from the input.
C8_BatchDegradesPerTrial ==
    pc = "done" =>
        LET df == args.df
            rows == ret.value
        IN  /\ ret.status = "ok"
            /\ Len(rows) = Cardinality(GroupKeys(df))
            /\ \A key \in GroupKeys(df) :
                  Cardinality({k \in 1..Len(rows) : KeyOf(rows[k]) = key}) = 1
            /\ \A k \in 1..Len(rows) : FieldsDegradeAlone(df, args.cfg, rows[k])
            /\ \A key \in GroupKeys(df) :
                  TrialRowsOfMain(WithoutKey(df, key), args.cfg)
                      = RowsWithoutKey(rows, key)

\* Two trials of one condition: the first a single sample with nothing
\* detected and no sample in its windows, the second with every field defined.
C8_Witness ==
    /\ pc = "done"
    /\ Len(ret.value) = 2
    /\ ret.value[1].condition = ret.value[2].condition
    /\ Cardinality(SamplesOf(args.df, KeyOf(ret.value[1]))) = 1
    /\ ret.value[1].t_start = None /\ ret.value[1].t_end = None
    /\ ret.value[1].pos_var_start = None /\ ret.value[1].pos_var_end = None
    /\ ret.value[1].y_end_mean = None /\ ret.value[1].mse_truth = None
    /\ ret.value[2].t_start # None /\ ret.value[2].t_end # None
    /\ ret.value[2].pos_var_start # None /\ ret.value[2].pos_var_end # None
    /\ ret.value[2].y_end_mean # None /\ ret.value[2].mse_truth # None

\* -------------------------------------------------- summarize_by_condition
\* df_trials is a sequence of per-trial rows whose metric fields are optional
\* numbers (None and NaN are both "missing" to pandas).  A standard deviation
\* is kept as its square, the variance, to stay exact.
SummaryKeyOf(r) == <<r.participant, r.condition>>

SummaryKeys(df_trials) == {SummaryKeyOf(df_trials[i]) : i \in 1..Len(df_trials)}

SummaryKeyLess(a, b) ==
    \/ StrRank(a[1]) < StrRank(b[1])
    \/ (a[1] = b[1] /\ StrRank(a[2]) < StrRank(b[2]))

RECURSIVE SortedSummaryKeys(_)
SortedSummaryKeys(K) ==
    IF K = {} THEN <<>>
    ELSE LET k == CHOOSE x \in K : \A z \in K \ {x} : SummaryKeyLess(x, z)
         IN  <<k>> \o SortedSummaryKeys(K \ {k})

\* The defined values of column f in the group of key, in row order.
RECURSIVE DefinedValues(_, _, _)
DefinedValues(df_trials, key, f) ==
    IF Len(df_trials) = 0 THEN <<>>
    ELSE (IF SummaryKeyOf(df_trials[1]) = key /\ df_trials[1][f] # None
          THEN <<df_trials[1][f][1]>> ELSE <<>>)
         \o DefinedValues(Tail(df_trials), key, f)

\* ("trial", "count"): the rows of the group whose trial is not missing;
\* trial is always an integer in a metrics row.
AggCount(df_trials, key) ==
    Len(SelectSeq(df_trials, LAMBDA r : SummaryKeyOf(r) = key))

\* (f, "mean"): the mean of the defined values, missing when there are none.
AggMean(df_trials, key, f) ==
    LET a == DefinedValues(df_trials, key, f)
    IN  IF Len(a) = 0 THEN None ELSE Some(Mean(a))

\* A standard deviation with the N denominator (ddof = 0).
AggStdPopulation(df_trials, key, f) ==
    LET a == DefinedValues(df_trials, key, f)
        n == Len(a)
        sq == [i \in 1..n |-> a[i] * a[i]]
    IN  IF n < 1 THEN None
        ELSE Some([num |-> n * SeqSum(sq) - SeqSum(a) * SeqSum(a),
                   den |-> n * n])

\* (f, "std"): ddof = 1 over the defined values, missing below 2 of them.
AggStd(df_trials, key, f) ==
    LET a == DefinedValues(df_trials, key, f)
    IN  IF Len(a) < 2 THEN None ELSE Some(SampleVar(a))

SummaryRow(df_trials, key) ==
    [participant        |-> key[1],
     condition          |-> key[2],
     n_trials           |-> AggCount(df_trials, key),
     t_start_mean       |-> AggMean(df_trials, key, "t_start"),
     t_start_std        |-> AggStd(df_trials, key, "t_start"),
     t_end_mean         |-> AggMean(df_trials, key, "t_end"),
     t_end_std          |-> AggStd(df_trials, key, "t_end"),
     pos_var_start_mean |-> AggMean(df_trials, key, "pos_var_start"),
     pos_var_start_std  |-> AggStd(df_trials, key, "pos_var_start"),
     pos_var_end_mean   |-> AggMean(df_trials, key, "pos_var_end"),
     pos_var_end_std    |-> AggStd(df_trials, key, "pos_var_end"),
     y_end_mean_mean    |-> AggMean(df_trials, key, "y_end_mean"),
     y_end_mean_std     |-> AggStd(df_trials, key, "y_end_mean"),
     mse_truth_mean     |-> AggMean(df_trials, key, "mse_truth"),
     mse_truth_std      |-> AggStd(df_trials, key, "mse_truth")]

summarize_by_condition(df_trials) ==
    LET keys == SortedSummaryKeys(SummaryKeys(df_trials))
    IN  [k \in 1..Len(keys) |-> SummaryRow(df_trials, keys[k])]

\* --------------------------------------------- specification: SpecSummary
\* Tables of up to MaxSumRows trials over two conditions.  One metric field
\* varies over missing and small values, the others hold a value of their own.
MetricFields ==
    {"t_start", "t_end", "pos_var_start", "pos_var_end", "y_end_mean",
     "mse_truth"}

MetricsTableRow(i, cond, varying, val) ==
    [participant |-> "P01", condition |-> cond, trial |-> i, tau |-> 0,
     t_start       |-> IF varying = "t_start" THEN val ELSE Some(10),
     t_end         |-> IF varying = "t_end" THEN val ELSE Some(20),
     pos_var_start |-> IF varying = "pos_var_start" THEN val ELSE Some(30),
     pos_var_end   |-> IF varying = "pos_var_end" THEN val ELSE Some(40),
     y_end_mean    |-> IF varying = "y_end_mean" THEN val ELSE Some(50),
     mse_truth     |-> IF varying = "mse_truth" THEN val ELSE Some(60)]

OptionalMetric == {None} \cup {Some(x) : x \in 0..MaxMetric}

InitSummary ==
    /\ pc = "ready"
    /\ ret = NoCall
    /\ \E f \in MetricFields :
         \/ \E n \in 1..MaxSumRows :
              \E cond \in [1..n -> {"1", "2"}], val \in [1..n -> OptionalMetric] :
                 args = [varying |-> f,
                         df_trials |-> [i \in 1..n |->
                            MetricsTableRow(i, cond[i], f, val[i])]]
         \* the documented group [0.5, undefined, 0.7], in tenths
         \/ args = [varying |-> f,
                    df_trials |-> <<MetricsTableRow(1, "1", f, Some(5)),
                                    MetricsTableRow(2, "1", f, None),
                                    MetricsTableRow(3, "1", f, Some(7))>>]

CallSummarize ==
    /\ pc = "ready"
    /\ ret' = Returned(summarize_by_condition(args.df_trials))
    /\ pc' = "done"
    /\ UNCHANGED args

NextSummary == CallSummarize

SpecSummary == InitSummary /\ [][NextSummary]_vars

MeanField(f) ==
    CASE f = "t_start" -> "t_start_mean" [] f = "t_end" -> "t_end_mean"
      [] f = "pos_var_start" -> "pos_var_start_mean"
      [] f = "pos_var_end" -> "pos_var_end_mean"
      [] f = "y_end_mean" -> "y_end_mean_mean" [] OTHER -> "mse_truth_mean"

StdField(f) ==
    CASE f = "t_start" -> "t_start_std" [] f = "t_end" -> "t_end_std"
      [] f = "pos_var_start" -> "pos_var_start_std"
      [] f = "pos_var_end" -> "pos_var_end_std"
      [] f = "y_end_mean" -> "y_end_mean_std" [] OTHER -> "mse_truth_std"

\* The rows of the group, and those of them where f is defined.
GroupRows(df_trials, key) ==
    {i \in 1..Len(df_trials) : SummaryKeyOf(df_trials[i]) = key}

DefinedRows(df_trials, key, f) ==
    {i \in GroupRows(df_trials, key) : df_trials[i][f] # None}

\* mean and std (squared) of column f over the rows D, all defined there.
IsMeanStdOver(df_trials, D, f, mean, std) ==
    LET n == Cardinality(D)
        x == [i \in 1..Len(df_trials) |->
                IF i \in D THEN df_trials[i][f][1] ELSE 0]
        S == SumOver(D, x)
        dev2 == [i \in 1..Len(df_trials) |-> (n * x[i] - S) * (n * x[i] - S)]
    IN  /\ (mean = None) <=> (n = 0)
        /\ (n > 0 => mean[1].num * n = S * mean[1].den)
        /\ (std = None) <=> (n < 2)
        /\ (n >= 2 => /\ std[1].den = n * (n - 1)
                      /\ SumOver(D, dev2) = n * std[1].num)

\* C4: for every (participant, condition) group, n_trials is the number of
\* trial rows of the group whatever is undefined in them, and each metric
\* field's mean and N-1 standard deviation are taken over only the defined
\* values of that field in the group; the standard deviation is undefined
\* below 2 defined values.
C4_SummaryOverDefinedValues ==
    pc = "done" =>
        LET df_trials == args.df_trials
            out == ret.value
        IN  /\ Len(out) = Cardinality(SummaryKeys(df_trials))
            /\ \A key \in SummaryKeys(df_trials) :
                 \E k \in 1..Len(out) :
                    /\ <<out[k].participant, out[k].condition>> = key
                    /\ out[k].n_trials
                          = Cardinality(GroupRows(df_trials, key))
                    /\ \A f \in MetricFields :
                          IsMeanStdOver(df_trials,
                                        DefinedRows(df_trials, key, f), f,
                                        out[k][MeanField(f)],
                                        out[k][StdField(f)])

\* t_start = [0.5, undefined, 0.7] (in tenths): n_trials = 3, mean 0.6 and
\* variance 0.02 over the 2 defined values.
C4_Witness ==
    /\ pc = "done"
    /\ args.varying = "t_start"
    /\ Len(args.df_trials) = 3
    /\ args.df_trials[1].t_start = Some(5)
    /\ args.df_trials[2].t_start = None
    /\ args.df_trials[3].t_start = Some(7)
    /\ Len(ret.value) = 1
    /\ ret.value[1].n_trials = 3
    /\ ret.value[1].t_start_mean = Some([num |-> 12, den |-> 2])
    /\ ret.value[1].t_start_std = Some([num |-> 4, den |-> 2])

\* ----------------------------------------------------------- load_session
\* A cell of the CSV is its text.  pd.to_numeric(errors="coerce") gives the
\* number a text spells, inf for "inf" and NaN for an empty or any other text.
NaN == [cls |-> "nan", v |-> 0]
Inf == [cls |-> "inf", v |-> 0]
Finite(x) == [cls |-> "fin", v |-> x]

to_numeric(cell) ==
    CASE cell = "0" -> Finite(0)
      [] cell = "1" -> Finite(1)
      [] cell = "2" -> Finite(2)
      [] cell = "inf" -> Inf
      [] OTHER -> NaN

NumericColumns == {"trial", "tau", "t", "y_t", "x_p", "y_p"}

\* Lines 23-30: the typed row.
TypedRow(raw) ==
    [idx |-> raw.idx,
     participant |-> raw.participant, condition |-> raw.condition,
     trial |-> to_numeric(raw.trial), tau |-> to_numeric(raw.tau),
     t |-> to_numeric(raw.t), y_t |-> to_numeric(raw.y_t),
     x_p |-> to_numeric(raw.x_p), y_p |-> to_numeric(raw.y_p)]

\* df.dropna(subset=[...]): a row is kept when none of the six is NaN.
KeptByDropna(row) == \A c \in NumericColumns : row[c] # NaN

load_session(csv) ==
    SelectSeq([i \in 1..Len(csv) |-> TypedRow(csv[i])], KeptByDropna)

\* ------------------------------------------------ specification: SpecLoad
\* Files of up to MaxLoadRows rows.  A row is all valid, or has one numeric
\* cell (or all six) empty, not a number, or infinite; the trial column holds
\* integers, empty cells or text.
CellTexts == {"", "abc", "inf", "1", "2"}

RawRow(i, bad, text) ==
    [idx |-> i, participant |-> "P01", condition |-> "1",
     trial |-> IF bad \in {"trial", "all"} /\ text # "inf" THEN text ELSE "1",
     tau   |-> IF bad \in {"tau", "all"} THEN text ELSE "0",
     t     |-> IF bad \in {"t", "all"} THEN text ELSE "1",
     y_t   |-> IF bad \in {"y_t", "all"} THEN text ELSE "0",
     x_p   |-> IF bad \in {"x_p", "all"} THEN text ELSE "2",
     y_p   |-> IF bad \in {"y_p", "all"} THEN text ELSE "1"]

InitLoad ==
    /\ pc = "ready"
    /\ ret = NoCall
    /\ \E n \in 1..MaxLoadRows :
         \E bad \in [1..n -> NumericColumns \cup {"all"}],
            text \in [1..n -> CellTexts] :
            args = [csv |-> [i \in 1..n |-> RawRow(i, bad[i], text[i])]]

CallLoadSession ==
    /\ pc = "ready"
    /\ ret' = Returned(load_session(args.csv))
    /\ pc' = "done"
    /\ UNCHANGED args

NextLoad == CallLoadSession

SpecLoad == InitLoad /\ [][NextLoad]_vars

IsFiniteNumberText(cell) == cell \in {"0", "1", "2"}

RawRowValid(raw) == \A c \in NumericColumns : IsFiniteNumberText(raw[c])

\* C7: every row load_session returns has all six numeric fields present and
\* finite: a raw row with any of them empty, unparseable or infinite is
\* excluded, and every raw row whose six fields are finite numbers is kept.
C7_LoadedRowsPresentAndFinite ==
    pc = "done" =>
        /\ ret.status = "ok"
        /\ \A k \in 1..Len(ret.value) :
              \A c \in NumericColumns : ret.value[k][c].cls = "fin"
        /\ \A i \in 1..Len(args.csv) :
              RawRowValid(args.csv[i])
                 <=> (\E k \in 1..Len(ret.value) : ret.value[k].idx = i)

\* -------------------------------------------------------- generate_motion
\* The stimulus loop draws one frame per refresh: a sample every 1/60 s.
REFRESH_HZ == 60
TimeUnitsPerSec == 1000 * TimeUnitsPerMs
FrameUnits == TimeUnitsPerSec \div REFRESH_HZ

\* Positions of the synthetic trial are whole multiples of L / 60^5, the
\* resolution at which the minimum-jerk polynomial is exact on the frames.
L_PX == 400
PosUnitsPerPx == (REFRESH_HZ ^ 5) \div L_PX

\* A velocity of 1 px/s in position units per time unit.
VelUnitsPerPxPerSec == PosUnitsPerPx \div TimeUnitsPerSec

\* L * bell_shape(t, T) for t in [0, T] on a frame: with s = t / T = j / 60,
\* L (10 s^3 - 15 s^4 + 6 s^5) = (L / 60^5) 6 j^3 (6000 - 150 j + j^2).
LTimesBellShape(t, T, L) ==
    LET j0 == (REFRESH_HZ * t) \div T
        j  == IF j0 < 0 THEN 0 ELSE IF j0 > REFRESH_HZ THEN REFRESH_HZ ELSE j0
    IN  (L \div (REFRESH_HZ ^ 5)) * (6 * j * j * j * (6000 - 150 * j + j * j))

generate_motion(t, tau, L, T) ==
    IF t < tau THEN 0 - (L \div 2)
    ELSE IF t < tau + T THEN (0 - (L \div 2)) + LTimesBellShape(t - tau, T, L)
    ELSE L \div 2

\* ------------------------------------------- specification: SpecEndToEnd
\* The synthetic trial: L = 400, T = 1.0, tau = 0.5, one sample per frame
\* from t = 0 until t reaches T + tau + DELTA, the pointer on the target
\* (y_p = y_t); then the default analysis with velocity detection.
T_MS == 1000
MU_MS == 500
DELTA_MS == 300
POSWIN_MS == 100
MARGIN_PX == 20
V_START == 50
V_STOP == 20
HOLD_START_MS == 80
HOLD_STOP_MS == 100

DefaultCfg ==
    [L |-> L_PX * PosUnitsPerPx, poswin_ms |-> POSWIN_MS,
     start_margin_px |-> MARGIN_PX * PosUnitsPerPx,
     end_margin_px |-> MARGIN_PX * PosUnitsPerPx,
     T_for_truth |-> Seconds(T_MS),
     v_start_thresh |-> V_START * VelUnitsPerPxPerSec,
     v_stop_thresh |-> V_STOP * VelUnitsPerPxPerSec,
     hold_start_ms |-> HOLD_START_MS, hold_stop_ms |-> HOLD_STOP_MS,
     use_velocity_detection |-> TRUE]

InitEndToEnd ==
    /\ pc = "recording"
    /\ ret = NoCall
    /\ args = [g |-> <<>>, cfg |-> DefaultCfg]

\* One pass of the stimulus loop: the frame's sample is appended.
RecordSample ==
    /\ pc = "recording"
    /\ LET t == Len(args.g) * FrameUnits
           y_t == generate_motion(t, Seconds(MU_MS), args.cfg.L, Seconds(T_MS))
       IN  IF t < Seconds(T_MS) + Seconds(MU_MS) + Seconds(DELTA_MS)
           THEN /\ args' = [args EXCEPT !.g = Append(@,
                               [trial |-> 1, tau |-> Seconds(MU_MS), t |-> t,
                                y_t |-> y_t, y_p |-> y_t])]
                /\ pc' = pc
           ELSE /\ pc' = "ready"
                /\ args' = args
    /\ UNCHANGED ret

\* The detections and the tracking error of per_trial_metrics_position_based
\* on the recorded trial.
AnalyzeTrial ==
    /\ pc = "ready"
    /\ ret' = Returned([trial |-> args.g[1].trial,
                        tau |-> TrialTau(args.g),
                        t_start |-> TStartOf(args.g, args.cfg),
                        t_end |-> TEndOf(args.g, args.cfg),
                        mse_truth |-> MseTruthOf(args.g, args.cfg)])
    /\ pc' = "done"
    /\ UNCHANGED args

NextEndToEnd == RecordSample \/ AnalyzeTrial

SpecEndToEnd == InitEndToEnd /\ [][NextEndToEnd]_vars

\* C2: on the synthetic trial with the default configuration, t_start is
\* within one hold duration (80 ms) of tau, t_end is within one hold duration
\* (100 ms) of tau + T, and mse_truth is 0.
C2_EndToEndDetectsTauAndTauPlusT ==
    pc = "done" =>
        LET m == ret.value
            tau == Seconds(MU_MS)
        IN  /\ m.t_start # None
            /\ Abs(m.t_start[1] - tau) <= Seconds(HOLD_START_MS)
            /\ m.t_end # None
            /\ Abs(m.t_end[1] - (tau + Seconds(T_MS))) <= Seconds(HOLD_STOP_MS)
            /\ m.mse_truth # None
            /\ m.mse_truth[1].num = 0

\* ---------------------------------------------------------- run_experiment
\* The trial loop of run_experiment and the four calls that end a run.  The
\* run's state is args: the loop variable trial, the drawn tau, the frame
\* counter of the stimulus loop, meta and all_rows; ret.value holds what the
\* run has put outside itself: the calls made so far (events), the CSV and
\* the JSON file.  config.py sets N_TRIALS = 50; the loop is modelled with
\* fewer trials, and the clock reaches T + tau + DELTA after FramesPerTrial
\* frames.
N_TRIALS == 2

TauDraws == {0, MU_MS}

\* A count of the trials that have at least one recorded row.
_finalize_meta_counting_rows(meta, rows) ==
    [meta EXCEPT
        !.completed_trials =
            Some(Cardinality({rows[i].trial : i \in 1..Len(rows)})),
        !.samples_recorded = Some(Len(rows))]

_finalize_meta(meta, rows) ==
    [meta EXCEPT !.completed_trials = Some(Len(meta.trials)),
                 !.samples_recorded = Some(Len(rows))]

\* The data lines _save_csv writes after the header, one per row.
_save_csv(rows, meta) ==
    [i \in 1..Len(rows) |->
        [participant |-> meta.participant, condition |-> meta.condition,
         trial |-> rows[i].trial, tau |-> rows[i].tau, t |-> rows[i].t,
         y_t |-> rows[i].y_t, x_p |-> rows[i].x_p, y_p |-> rows[i].y_p]]

\* json.dump(meta, f)
_save_meta(meta) == meta

InitExperiment ==
    /\ pc = "for"
    /\ \E condition \in {"1", "2"} :
         args = [trial |-> 0, tau |-> 0, frame |-> 0, all_rows |-> <<>>,
                 meta |-> [participant |-> "P01", condition |-> condition,
                           trials |-> <<>>, completed_trials |-> None,
                           samples_recorded |-> None]]
    /\ ret = [status |-> "running",
              value |-> [events |-> <<>>, csv |-> None, json |-> None]]

\* for trial in range(1, N_TRIALS + 1): tau is drawn and added to meta.
ForNextTrial ==
    /\ pc = "for"
    /\ args.trial < N_TRIALS
    /\ \E tau \in (IF args.meta.condition = "1" THEN {MU_MS} ELSE TauDraws) :
         args' = [args EXCEPT
                    !.trial = @ + 1, !.tau = tau, !.frame = 0,
                    !.meta.trials = Append(@, [trial |-> args.trial + 1,
                                               tau |-> tau])]
    /\ pc' = "wait"
    /\ UNCHANGED ret

\* The loop is exhausted: lines 175-178 follow.
ForExhausted ==
    /\ pc = "for"
    /\ args.trial = N_TRIALS
    /\ pc' = "finalize"
    /\ UNCHANGED <<args, ret>>

\* Wait screen, escape among the keys (escape is tested before space).
WaitEscape ==
    /\ pc = "wait"
    /\ pc' = "finalize"
    /\ UNCHANGED <<args, ret>>

\* Wait screen, space pressed: the clock is reset and the stimulus starts.
WaitSpace ==
    /\ pc = "wait"
    /\ pc' = "stim"
    /\ UNCHANGED <<args, ret>>

\* One pass of the stimulus loop: the frame's row is recorded, then escape
\* is polled.
StimFrame ==
    /\ pc = "stim"
    /\ args.frame < FramesPerTrial
    /\ \E y_p \in 0..1, escape \in BOOLEAN :
         LET t == args.frame * FrameUnits
             y_t == generate_motion(t, Seconds(args.tau),
                                    L_PX * PosUnitsPerPx, Seconds(T_MS))
         IN  /\ args' = [args EXCEPT
                           !.frame = @ + 1,
                           !.all_rows = Append(@,
                               [trial |-> args.trial, tau |-> args.tau,
                                t |-> t, y_t |-> y_t, x_p |-> 0, y_p |-> y_p])]
             /\ pc' = IF escape THEN "finalize" ELSE "stim"
    /\ UNCHANGED ret

\* The clock has reached T + tau + DELTA: the inter-trial wait, then the
\* next pass of the for loop.
StimTimeUp ==
    /\ pc = "stim"
    /\ args.frame = FramesPerTrial
    /\ pc' = "for"
    /\ UNCHANGED <<args, ret>>

\* _finalize_meta(meta, all_rows)
CallFinalizeMeta ==
    /\ pc = "finalize"
    /\ args' = [args EXCEPT !.meta = _finalize_meta(args.meta, args.all_rows)]
    /\ ret' = [ret EXCEPT !.value.events = Append(@, "_finalize_meta")]
    /\ pc' = "save_csv"

\* _save_csv(all_rows, meta, base_name)
CallSaveCsv ==
    /\ pc = "save_csv"
    /\ ret' = [ret EXCEPT
                 !.value.events = Append(@, "_save_csv"),
                 !.value.csv = Some(_save_csv(args.all_rows, args.meta))]
    /\ pc' = "save_meta"
    /\ UNCHANGED args

\* _save_meta(meta, base_name)
CallSaveMeta ==
    /\ pc = "save_meta"
    /\ ret' = [ret EXCEPT
                 !.value.events = Append(@, "_save_meta"),
                 !.value.json = Some(_save_meta(args.meta))]
    /\ pc' = "safe_close"
    /\ UNCHANGED args

\* _safe_close(win): the window is closed and core.quit() ends the process.
CallSafeClose ==
    /\ pc = "safe_close"
    /\ ret' = [ret EXCEPT !.status = "ok",
                          !.value.events = Append(@, "_safe_close")]
    /\ pc' = "closed"
    /\ UNCHANGED args

NextExperiment ==
    \/ ForNextTrial \/ ForExhausted \/ WaitEscape \/ WaitSpace
    \/ StimFrame \/ StimTimeUp
    \/ CallFinalizeMeta \/ CallSaveCsv \/ CallSaveMeta \/ CallSafeClose

SpecExperiment == InitExperiment /\ [][NextExperiment]_vars

EndingCalls == <<"_finalize_meta", "_save_csv", "_save_meta", "_safe_close">>

IsPrefix(a, b) == Len(a) <= Len(b) /\ \A i \in 1..Len(a) : a[i] = b[i]

\* C11: however the trial loop ends, the metadata is finalized, then the CSV
\* is saved, then the metadata JSON, each once and before the window is
\* closed; the CSV holds every row recorded so far in recording order,
\* samples_recorded is that row count and completed_trials is the number of
\* trials whose tau has been drawn, a trial left on its wait screen included.
C11_RunEndsFinalizeCsvMetaClose ==
    /\ IsPrefix(ret.value.events, EndingCalls)
    /\ (pc \in {"for", "wait", "stim", "finalize"} => ret.value.events = <<>>)
    /\ (pc = "closed" =>
          /\ ret.value.events = EndingCalls
          /\ ret.value.csv # None /\ ret.value.json # None
          /\ Len(ret.value.csv[1]) = Len(args.all_rows)
          /\ \A i \in 1..Len(args.all_rows) :
                /\ ret.value.csv[1][i].trial = args.all_rows[i].trial
                /\ ret.value.csv[1][i].t = args.all_rows[i].t
                /\ ret.value.csv[1][i].tau = args.all_rows[i].tau
                /\ ret.value.csv[1][i].y_t = args.all_rows[i].y_t
                /\ ret.value.csv[1][i].y_p = args.all_rows[i].y_p
          /\ \A i \in 1..(Len(args.all_rows) - 1) :
                \/ args.all_rows[i].trial < args.all_rows[i + 1].trial
                \/ /\ args.all_rows[i].trial = args.all_rows[i + 1].trial
                   /\ args.all_rows[i].t < args.all_rows[i + 1].t
          /\ ret.value.json[1].samples_recorded = Some(Len(args.all_rows))
          /\ ret.value.json[1].completed_trials = Some(args.trial))

\* Escape on the wait screen of the second trial: the first trial's rows are
\* saved and the second trial, which has no row, is counted.
C11_Witness ==
    /\ pc = "closed"
    /\ args.trial = 2
    /\ Len(args.all_rows) = FramesPerTrial
    /\ \A i \in 1..Len(args.all_rows) : args.all_rows[i].trial = 1
    /\ ret.value.json[1].completed_trials = Some(2)
    /\ Len(ret.value.csv[1]) = FramesPerTrial

=============================================================================
